---- MODULE Spec2Model ----
(***************************************************************************)
(* Model of the trajectory utilities of mushroom/utils/dataset.py and of   *)
(* the two noise policies of mushroom_rl/policy/noise_policy.py.           *)
(*                                                                         *)
(* Numbers: rewards, Q-values and the Ornstein-Uhlenbeck quantities are    *)
(* exact integers (floating-point rounding is not modelled).  Actions of   *)
(* the clipped Gaussian policy are integers counting halves (2 is 1.0), so *)
(* that the ranges of sigmoid, tanh and torch.rand have representable      *)
(* interior points.                                                        *)
(***************************************************************************)
EXTENDS Integers, Sequences, FiniteSets, TLC

VARIABLES
    call,       \* the dataset-utility call made and its outcome
    ou,         \* fields of the OrnsteinUhlenbeckPolicy object
    run,        \* the control loop driving the OU policy (threads policy_state)
    gp,         \* fields of the ClippedGaussianPolicy object
    gcall       \* the last ClippedGaussianPolicy call and its outcome

vars == <<call, ou, run, gp, gcall>>

\* an optional value: None, or Some(v) holding v
None == <<>>
Some(v) == <<v>>

(***************************************************************************)
(* Bounds of the model.                                                    *)
(***************************************************************************)
MaxLen == 4          \* longest dataset
MaxRows == 2         \* largest batch given to max_QA
MaxActions == 2      \* most discrete actions per row in max_QA
OUDim == 1           \* output shape of the OU policy's approximator
MaxCalls == 3        \* draw_action calls of the OU policy between two resets
MaxDisc == 1         \* most discrete action components of the Gaussian policy
MaxCont == 1         \* most continuous action components of the Gaussian policy

Rewards == {-1, 1, 2}
Gammas == {0, 1, 2}
QValues == {-1, 0, 1}

Rows == [reward : Rewards, last : {0, 1}]
Datasets == UNION {[1..n -> Rows] : n \in 0..MaxLen}

(***************************************************************************)
(* Numeric helpers.                                                        *)
(***************************************************************************)
RECURSIVE Pow(_, _)
\* gamma ** n of Python: 1 for n = 0, whatever gamma is
Pow(g, n) == IF n = 0 THEN 1 ELSE g * Pow(g, n - 1)

RECURSIVE SumSeq(_)
SumSeq(s) == IF s = <<>> THEN 0 ELSE Head(s) + SumSeq(Tail(s))

RECURSIVE MinSeq(_)
\* np.min over a non-empty list
MinSeq(s) ==
    IF Len(s) = 1 THEN s[1]
    ELSE LET m == MinSeq(Tail(s)) IN IF s[1] <= m THEN s[1] ELSE m

RECURSIVE MaxSeq(_)
\* np.max over a non-empty list
MaxSeq(s) ==
    IF Len(s) = 1 THEN s[1]
    ELSE LET m == MaxSeq(Tail(s)) IN IF s[1] >= m THEN s[1] ELSE m

\* np.mean, kept as the exact quotient sum / len (0 / 0, a NaN, on an empty list)
MeanSeq(s) == [num |-> SumSeq(s), den |-> Len(s)]

\* the number 0 in the representation of MeanSeq
Zero == [num |-> 0, den |-> 1]

(***************************************************************************)
(* compute_J: the loop of lines 97-109, one recursion per iteration.       *)
(* i is the 0-based loop index, dataset[i] of the code is dataset[i + 1].  *)
(***************************************************************************)
RECURSIVE compute_J_mutant_loop(_, _, _, _, _, _)
compute_J_mutant_loop(dataset, gamma, i, j, episode_steps, js) ==
    IF i >= Len(dataset) THEN js
    ELSE LET j1 == j + Pow(gamma, episode_steps) * dataset[i + 1].reward
         IN  IF dataset[i + 1].last # 0
             THEN compute_J_mutant_loop(dataset, gamma, i + 1, 0, episode_steps + 1,
                                        Append(js, j1))
             ELSE compute_J_mutant_loop(dataset, gamma, i + 1, j1, episode_steps + 1, js)

\* compute_J with episode_steps never reset at an episode end
compute_J_no_reset(dataset, gamma) ==
    compute_J_mutant_loop(dataset, gamma, 0, 0, 0, <<>>)

RECURSIVE compute_J_loop(_, _, _, _, _, _)
compute_J_loop(dataset, gamma, i, j, episode_steps, js) ==
    IF i >= Len(dataset) THEN js
    ELSE LET j1 == j + Pow(gamma, episode_steps) * dataset[i + 1].reward
         IN  IF dataset[i + 1].last # 0
             THEN compute_J_loop(dataset, gamma, i + 1, 0, 0, Append(js, j1))
             ELSE compute_J_loop(dataset, gamma, i + 1, j1, episode_steps + 1, js)

compute_J(dataset, gamma) == compute_J_loop(dataset, gamma, 0, 0, 0, <<>>)

(***************************************************************************)
(* compute_scores: the loop of lines 127-139 and the return of 141-144.    *)
(***************************************************************************)
RECURSIVE compute_scores_loop(_, _, _, _, _)
compute_scores_loop(dataset, i, score, scores, n_episodes) ==
    IF i >= Len(dataset) THEN [scores |-> scores, n_episodes |-> n_episodes]
    ELSE LET s1 == score + dataset[i + 1].reward
         IN  IF dataset[i + 1].last # 0
             THEN compute_scores_loop(dataset, i + 1, 0, Append(scores, s1),
                                      n_episodes + 1)
             ELSE compute_scores_loop(dataset, i + 1, s1, scores, n_episodes)

\* compute_scores without the len(scores) > 0 test
compute_scores_no_sentinel(dataset) ==
    LET r == compute_scores_loop(dataset, 0, 0, <<>>, 0)
    IN  IF Len(r.scores) > 0
        THEN [min |-> MinSeq(r.scores), max |-> MaxSeq(r.scores),
              mean |-> MeanSeq(r.scores), n |-> r.n_episodes]
        ELSE [min |-> 0, max |-> 0, mean |-> MeanSeq(r.scores), n |-> 0]

compute_scores(dataset) ==
    LET r == compute_scores_loop(dataset, 0, 0, <<>>, 0)
    IN  IF Len(r.scores) > 0
        THEN [min |-> MinSeq(r.scores), max |-> MaxSeq(r.scores),
              mean |-> MeanSeq(r.scores), n |-> r.n_episodes]
        ELSE [min |-> 0, max |-> 0, mean |-> Zero, n |-> 0]

(***************************************************************************)
(* select_episodes, lines 50-59 (parse = False).                           *)
(***************************************************************************)
RECURSIVE argwhere_last(_, _)
\* np.argwhere(dataset[:, -1] == 1).ravel(): the 0-based row numbers, ascending
argwhere_last(dataset, i) ==
    IF i >= Len(dataset) THEN <<>>
    ELSE IF dataset[i + 1].last = 1
         THEN <<i>> \o argwhere_last(dataset, i + 1)
         ELSE argwhere_last(dataset, i + 1)

\* a[k] of a one-dimensional numpy array: negative k counts from the end
NumpyIndex(a, k) ==
    LET pos == IF k < 0 THEN k + Len(a) ELSE k
    IN  IF pos < 0 \/ pos >= Len(a)
        THEN [ok |-> FALSE, value |-> 0]
        ELSE [ok |-> TRUE, value |-> a[pos + 1]]

\* np.array([[]]): one row, no column
EmptyArray == << <<>> >>

\* select_episodes without the assertion of line 50
select_episodes_no_assert(dataset, n_episodes) ==
    IF n_episodes = 0
    THEN [kind |-> "return", value |-> EmptyArray, inspected |-> FALSE]
    ELSE LET last_idxs == argwhere_last(dataset, 0)
             e == NumpyIndex(last_idxs, n_episodes - 1)
         IN  IF ~e.ok
             THEN [kind |-> "IndexError", value |-> <<>>, inspected |-> TRUE]
             ELSE [kind |-> "return", value |-> SubSeq(dataset, 1, e.value + 1),
                   inspected |-> TRUE]

\* select_episodes slicing dataset[:last_idxs[n_episodes - 1]]
select_episodes_short(dataset, n_episodes) ==
    IF ~(n_episodes >= 0)
    THEN [kind |-> "AssertionError", value |-> <<>>, inspected |-> FALSE]
    ELSE IF n_episodes = 0
    THEN [kind |-> "return", value |-> EmptyArray, inspected |-> FALSE]
    ELSE LET last_idxs == argwhere_last(dataset, 0)
             e == NumpyIndex(last_idxs, n_episodes - 1)
         IN  IF ~e.ok
             THEN [kind |-> "IndexError", value |-> <<>>, inspected |-> TRUE]
             ELSE [kind |-> "return", value |-> SubSeq(dataset, 1, e.value),
                   inspected |-> TRUE]

select_episodes(dataset, n_episodes) ==
    IF ~(n_episodes >= 0)
    THEN [kind |-> "AssertionError", value |-> <<>>, inspected |-> FALSE]
    ELSE IF n_episodes = 0
    THEN [kind |-> "return", value |-> EmptyArray, inspected |-> FALSE]
    ELSE LET last_idxs == argwhere_last(dataset, 0)
             e == NumpyIndex(last_idxs, n_episodes - 1)
         IN  IF ~e.ok
             THEN [kind |-> "IndexError", value |-> <<>>, inspected |-> TRUE]
             ELSE [kind |-> "return", value |-> SubSeq(dataset, 1, e.value + 1),
                   inspected |-> TRUE]

(***************************************************************************)
(* max_QA, lines 159-169.  q is the matrix predict_all returned (a         *)
(* sequence of rows), absorbing a sequence of 0/1 flags, one per row.      *)
(* The value is the set of results the call can return: np.random.choice   *)
(* may pick any of the indices it is given.                                *)
(***************************************************************************)
NpAny(absorbing) == \E r \in 1..Len(absorbing) : absorbing[r] # 0

\* q *= 1 - absorbing.reshape(-1, 1), executed when np.any(absorbing)
ZeroAbsorbing(q, absorbing) ==
    IF NpAny(absorbing)
    THEN [r \in 1..Len(q) |-> [a \in 1..Len(q[r]) |-> q[r][a] * (1 - absorbing[r])]]
    ELSE q

\* np.argmax over a row: the lowest 0-based index holding the maximum
ArgMax(row) ==
    (CHOOSE a \in 1..Len(row) :
        /\ row[a] = MaxSeq(row)
        /\ \A b \in 1..(a - 1) : row[b] # MaxSeq(row)) - 1

\* np.argwhere(q[0] == max_q).ravel(): the 0-based indices of the maximum of row 0
Tied(row, m) == {a - 1 : a \in {b \in 1..Len(row) : row[b] = m}}

\* max_QA without the zeroing of absorbing rows
max_QA_keep_absorbing(q, absorbing) ==
    LET max_q == [r \in 1..Len(q) |-> MaxSeq(q[r])]
    IN  IF Len(q) > 1
        THEN {[max_q |-> max_q, max_a |-> [r \in 1..Len(q) |-> ArgMax(q[r])]]}
        ELSE {[max_q |-> max_q, max_a |-> <<a>>] : a \in Tied(q[1], max_q[1])}

max_QA(q, absorbing) ==
    LET z == ZeroAbsorbing(q, absorbing)
        max_q == [r \in 1..Len(z) |-> MaxSeq(z[r])]
    IN  IF Len(z) > 1
        THEN {[max_q |-> max_q, max_a |-> [r \in 1..Len(z) |-> ArgMax(z[r])]]}
        ELSE {[max_q |-> max_q, max_a |-> <<a>>] : a \in Tied(z[1], max_q[1])}

(***************************************************************************)
(* The dataset utilities as a state machine: one call per behaviour, its   *)
(* arguments drawn from the bounded sets.                                  *)
(***************************************************************************)
NEpisodes == (0 - MaxLen)..(MaxLen + 1)
QMatrices == UNION {[1..r -> [1..a -> QValues]] : r \in 1..MaxRows, a \in 1..MaxActions}

NoCall == [op |-> "none"]

CallComputeJ ==
    /\ call.op = "none"
    /\ \E d \in Datasets, g \in Gammas :
          call' = [op |-> "compute_J", dataset |-> d, gamma |-> g,
                   out |-> compute_J(d, g)]
    /\ UNCHANGED <<ou, run, gp, gcall>>

CallComputeScores ==
    /\ call.op = "none"
    /\ \E d \in Datasets :
          call' = [op |-> "compute_scores", dataset |-> d, out |-> compute_scores(d)]
    /\ UNCHANGED <<ou, run, gp, gcall>>

CallSelectEpisodes ==
    /\ call.op = "none"
    /\ \E d \in Datasets, n \in NEpisodes :
          call' = [op |-> "select_episodes", dataset |-> d, n_episodes |-> n,
                   out |-> select_episodes(d, n)]
    /\ UNCHANGED <<ou, run, gp, gcall>>

CallMaxQA ==
    /\ call.op = "none"
    /\ \E q \in QMatrices :
          \E absorbing \in [1..Len(q) -> {0, 1}] :
             \E res \in max_QA(q, absorbing) :
                call' = [op |-> "max_QA", q |-> q, absorbing |-> absorbing,
                         max_q |-> res.max_q, max_a |-> res.max_a]
    /\ UNCHANGED <<ou, run, gp, gcall>>

Idle == [op |-> "idle"]

InitData ==
    /\ call = NoCall
    /\ ou = Idle
    /\ run = Idle
    /\ gp = Idle
    /\ gcall = Idle

NextData == CallComputeJ \/ CallComputeScores \/ CallSelectEpisodes \/ CallMaxQA

SpecData == InitData /\ [][NextData]_vars

(***************************************************************************)
(* Episodes of a dataset, stated from the positions of the last flags.     *)
(***************************************************************************)
EpisodeEnds(d) == {i \in 1..Len(d) : d[i].last # 0}

\* the position of the k-th row flagged last (1 <= k <= number of such rows)
NthEnd(d, k) ==
    CHOOSE e \in EpisodeEnds(d) : Cardinality({x \in EpisodeEnds(d) : x <= e}) = k

EpisodeStart(d, k) == IF k = 1 THEN 1 ELSE NthEnd(d, k - 1) + 1

\* sum over the k-th episode of gamma^t * reward_t, t from 0 at its first row
DiscountedReturn(d, g, k) ==
    LET first == EpisodeStart(d, k)
        T == NthEnd(d, k) - first + 1
    IN  SumSeq([t \in 1..T |-> Pow(g, t - 1) * d[first + t - 1].reward])

C2_Scores ==
    call.op = "compute_scores" =>
        LET J == compute_J(call.dataset, 1)
            E == EpisodeEnds(call.dataset)
        IN  IF E = {}
            THEN call.out = [min |-> 0, max |-> 0, mean |-> Zero, n |-> 0]
            ELSE /\ call.out.n = Cardinality(E)
                 /\ \E k \in 1..Len(J) : call.out.min = J[k]
                 /\ \A k \in 1..Len(J) : call.out.min <= J[k]
                 /\ \E k \in 1..Len(J) : call.out.max = J[k]
                 /\ \A k \in 1..Len(J) : call.out.max >= J[k]
                 /\ call.out.mean.den # 0
                 /\ call.out.mean.num * Len(J) = SumSeq(J) * call.out.mean.den

\* scores over two episodes with different sums
C2_Witness ==
    /\ call.op = "compute_scores"
    /\ call.out.n = 2
    /\ call.out.min < call.out.max

\* C3: for 1 <= n_episodes <= E select_episodes returns the prefix of the
\* dataset ending at the n_episodes-th row flagged last; for n_episodes = 0 it
\* returns the empty array without reading the dataset.
C3_SelectPrefix ==
    call.op = "select_episodes" =>
        LET d == call.dataset
            n == call.n_episodes
            E == Cardinality(EpisodeEnds(d))
        IN  /\ (1 <= n /\ n <= E) =>
                  /\ call.out.kind = "return"
                  /\ LET v == call.out.value
                     IN  /\ Len(v) = NthEnd(d, n)
                         /\ \A i \in 1..Len(v) : v[i] = d[i]
                         /\ v[Len(v)].last = 1
                         /\ Cardinality(EpisodeEnds(v)) = n
            /\ n = 0 =>
                  /\ call.out.kind = "return"
                  /\ Len(call.out.value) = 1
                  /\ call.out.value[1] = <<>>
                  /\ ~call.out.inspected

\* one episode selected out of a dataset holding two, rows left behind
C3_Witness ==
    /\ call.op = "select_episodes"
    /\ call.n_episodes = 1
    /\ Cardinality(EpisodeEnds(call.dataset)) = 2
    /\ call.out.kind = "return"
    /\ Len(call.out.value) = 2
    /\ Len(call.dataset) = 3

\* C4: select_episodes ends in an index error when n_episodes exceeds the
\* number of rows flagged last, and in an assertion error when n_episodes is
\* negative; it returns no subset in either case.
C4_SelectErrors ==
    call.op = "select_episodes" =>
        LET n == call.n_episodes
            E == Cardinality(EpisodeEnds(call.dataset))
        IN  /\ n > E => call.out.kind = "IndexError"
            /\ n < 0 => call.out.kind = "AssertionError"

\* more episodes requested than a dataset with episodes holds
C4_Witness ==
    /\ call.op = "select_episodes"
    /\ Cardinality(EpisodeEnds(call.dataset)) = 2
    /\ call.n_episodes = 3
    /\ call.out.kind = "IndexError"

\* C5: every returned action index holds the returned maximum of its row
\* after the rows flagged absorbing are zeroed; with more than one row it is
\* the lowest such index; an absorbing row returns the value 0.
C5_MaxQA ==
    call.op = "max_QA" =>
        LET z == [r \in 1..Len(call.q) |->
                    [a \in 1..Len(call.q[r]) |->
                        IF call.absorbing[r] # 0 THEN 0 ELSE call.q[r][a]]]
        IN  \A r \in 1..Len(z) :
               /\ \A a \in 1..Len(z[r]) : z[r][a] <= call.max_q[r]
               /\ call.max_a[r] \in 0..(Len(z[r]) - 1)
               /\ z[r][call.max_a[r] + 1] = call.max_q[r]
               /\ call.absorbing[r] # 0 => call.max_q[r] = 0
               /\ Len(z) > 1 =>
                     \A a \in 1..call.max_a[r] : z[r][a] < call.max_q[r]

\* a single absorbing row with non-zero values: value 0 and an index that is
\* not the lowest one
C5_Witness ==
    /\ call.op = "max_QA"
    /\ Len(call.q) = 1
    /\ call.absorbing[1] = 1
    /\ call.q[1][1] # 0
    /\ Len(call.q[1]) >= 2
    /\ call.max_a[1] = Len(call.q[1]) - 1
    /\ call.max_q[1] = 0

(***************************************************************************)
(* Tensors are sequences of integers; the operators below are the          *)
(* element-wise tensor arithmetic the policies use.                        *)
(***************************************************************************)
VAdd(u, v) == [i \in 1..Len(u) |-> u[i] + v[i]]
VSub(u, v) == [i \in 1..Len(u) |-> u[i] - v[i]]
VScale(c, v) == [i \in 1..Len(v) |-> c * v[i]]
Zeros(n) == [i \in 1..n |-> 0]

\* np.sqrt on the perfect squares the model draws dt from
Sqrt(n) == CHOOSE r \in 0..n : r * r = n

\* the wrapped regressor: a linear map of a scalar state, one weight per output
Predict(weights, state) == [i \in 1..Len(weights) |-> weights[i] * state]

(***************************************************************************)
(* OrnsteinUhlenbeckPolicy, lines 15-72.  self is the record of the        *)
(* object's fields; every method returns the fields it leaves behind.      *)
(***************************************************************************)
OUSigmas == {1, 2}
OUThetas == {0, 1}
OUDts == {1, 4}
OUWeights == [1..OUDim -> {-1, 2}]
OUX0s == {None} \cup {Some(v) : v \in [1..OUDim -> {1}]}
OUStates == {0, 1}
OUNoises == [1..OUDim -> {-1, 1}]

\* __init__, lines 27-35
OU_init(mu, sigma, theta, dt, x0) ==
    [weights |-> mu, sigma |-> sigma, theta |-> theta, dt |-> dt, x0 |-> x0,
     x_prev |-> None]

\* reset, lines 71-72
OU_reset(self) ==
    [self |-> self,
     ret  |-> IF self.x0 # None THEN self.x0[1] ELSE Zeros(Len(self.weights))]

\* draw_action returning the action as the new policy state
OU_draw_action_leaks_mu(self, state, policy_state, noise) ==
    LET mu == Predict(self.weights, state)
        sqrt_dt == Sqrt(self.dt)
        x == VAdd(VSub(policy_state, VScale(self.theta * self.dt, policy_state)),
                  VScale(self.sigma * sqrt_dt, noise))
    IN  [self |-> self, policy_state |-> policy_state,
         action |-> VAdd(mu, x), x |-> VAdd(mu, x)]

\* draw_action keeping the noise in the object, as the reference implementation did
OU_draw_action_stores(self, state, policy_state, noise) ==
    LET mu == Predict(self.weights, state)
        sqrt_dt == Sqrt(self.dt)
        x == VAdd(VSub(policy_state, VScale(self.theta * self.dt, policy_state)),
                  VScale(self.sigma * sqrt_dt, noise))
    IN  [self |-> [self EXCEPT !.x_prev = Some(x)], policy_state |-> policy_state,
         action |-> VAdd(mu, x), x |-> x]

\* draw_action, lines 51-59; noise is what torch.randn returned
OU_draw_action(self, state, policy_state, noise) ==
    LET mu == Predict(self.weights, state)
        sqrt_dt == Sqrt(self.dt)
        x == VAdd(VSub(policy_state, VScale(self.theta * self.dt, policy_state)),
                  VScale(self.sigma * sqrt_dt, noise))
    IN  [self |-> self, policy_state |-> policy_state,
         action |-> VAdd(mu, x), x |-> x]

(***************************************************************************)
(* The control loop around the OU policy: it calls reset, then draw_action *)
(* repeatedly, feeding each returned policy state back.                    *)
(***************************************************************************)
InitOU ==
    /\ call = Idle
    /\ gp = Idle
    /\ gcall = Idle
    /\ \E w \in OUWeights, sg \in OUSigmas, th \in OUThetas, dt \in OUDts,
          x0 \in OUX0s :
          /\ ou = OU_init(w, sg, th, dt, x0)
          /\ run = [pc |-> "constructed", made |-> OU_init(w, sg, th, dt, x0),
                    policy_state |-> Zeros(OUDim), x_0 |-> Zeros(OUDim),
                    noises |-> <<>>, draws |-> 0, state |-> 0,
                    action |-> Zeros(OUDim), arg_before |-> Zeros(OUDim),
                    arg_after |-> Zeros(OUDim)]

OUReset ==
    /\ LET r == OU_reset(ou)
       IN  /\ ou' = r.self
           /\ run' = [run EXCEPT !.pc = "reset", !.policy_state = r.ret,
                                 !.x_0 = r.ret, !.noises = <<>>]
    /\ UNCHANGED <<call, gp, gcall>>

OUDrawAction ==
    /\ run.pc # "constructed"
    /\ Len(run.noises) < MaxCalls
    /\ \E state \in OUStates, noise \in OUNoises :
          LET r == OU_draw_action(ou, state, run.policy_state, noise)
          IN  /\ ou' = r.self
              /\ run' = [run EXCEPT !.pc = "draw_action", !.policy_state = r.x,
                                    !.noises = Append(@, noise),
                                    !.draws = IF @ < MaxCalls THEN @ + 1 ELSE @,
                                    !.state = state, !.action = r.action,
                                    !.arg_before = run.policy_state,
                                    !.arg_after = r.policy_state]
    /\ UNCHANGED <<call, gp, gcall>>

NextOU == OUReset \/ OUDrawAction

SpecOU == InitOU /\ [][NextOU]_vars

RECURSIVE OURecurrence(_)
\* x_k of the recurrence x_{k+1} = x_k - theta*x_k*dt + sigma*sqrt(dt)*noise_k,
\* from the x_0 that reset returned and the noise drawn since
OURecurrence(k) ==
    IF k = 0 THEN run.x_0
    ELSE LET p == OURecurrence(k - 1)
         IN  [i \in 1..Len(p) |->
                 p[i] - run.made.theta * p[i] * run.made.dt
                      + run.made.sigma * Sqrt(run.made.dt) * run.noises[k][i]]

\* C6: with the policy state fed back from reset on, the k-th draw_action
\* returns x_k of the recurrence, a function of x_0 and the noise alone, and
\* the action approximator(state) + x_k.
C6_OURecurrence ==
    run.pc = "draw_action" =>
        /\ run.policy_state = OURecurrence(Len(run.noises))
        /\ run.action = VAdd(Predict(run.made.weights, run.state), run.policy_state)

\* a third call, with mean reversion at work and a non-zero approximator output
C6_Witness ==
    /\ run.pc = "draw_action"
    /\ Len(run.noises) = 3
    /\ run.made.theta = 1
    /\ run.made.dt = 4
    /\ run.noises[1] # run.noises[2]
    /\ run.state # 0
    /\ run.policy_state # run.x_0

\* C7: no call changes a field of the policy or the policy_state it was
\* given, and reset returns x0 when one was supplied and zeros otherwise,
\* however many draw_action calls came before.
C7_OUStateless ==
    /\ ou = run.made
    /\ ou.x_prev = None
    /\ run.pc = "draw_action" => run.arg_after = run.arg_before
    /\ run.pc = "reset" =>
          run.policy_state = IF run.made.x0 # None THEN run.made.x0[1]
                             ELSE Zeros(Len(run.made.weights))

\* reset after draw_action calls, with x0 supplied
C7_Witness ==
    /\ run.pc = "reset"
    /\ run.draws >= 2
    /\ run.made.x0 # None
    /\ run.policy_state = run.made.x0[1]
    /\ run.arg_after # run.policy_state

(***************************************************************************)
(* ClippedGaussianPolicy, lines 89-201.  Action components count halves.   *)
(***************************************************************************)
\* torch.sigmoid, rounded to the nearest half: 0, 0.5 or 1
Sigmoid(h) == IF h <= -3 THEN 0 ELSE IF h >= 3 THEN 2 ELSE 1

\* torch.tanh, rounded to the nearest half: within [-1, 1]
Tanh(h) == IF h >= 2 THEN 2 ELSE IF h <= -2 THEN -2 ELSE h

\* v[:k] of Python, k >= 0
SliceTo(v, k) == SubSeq(v, 1, IF k < Len(v) THEN k ELSE Len(v))

\* v[-k:] of Python, k >= 0: the last k entries, and the whole of v for k = 0
SliceLast(v, k) ==
    IF k = 0 \/ k >= Len(v) THEN v ELSE SubSeq(v, Len(v) - k + 1, Len(v))

\* v[-k:] = w: v with the entries of that slice replaced
AssignLast(v, k, w) ==
    LET first == IF k = 0 \/ k >= Len(v) THEN 1 ELSE Len(v) - k + 1
    IN  [i \in 1..Len(v) |-> IF i >= first THEN w[i - first + 1] ELSE v[i]]

\* loc + scale_tril . z, the sample MultivariateNormal draws for the normal draw z
MVNSample(loc, chol, z) ==
    [i \in 1..Len(loc) |->
        loc[i] + SumSeq([j \in 1..Len(z) |-> chol[i][j] * z[j]])]

\* torch.clip(action, low, high), element-wise
Clip(action, low, high) ==
    [i \in 1..Len(action) |->
        LET lo == IF action[i] < low[i] THEN low[i] ELSE action[i]
        IN  IF lo > high[i] THEN high[i] ELSE lo]

\* the outcome of a call that raised
Raised(kind, mode, queried) ==
    [kind |-> kind, mode |-> mode, queried |-> queried, action |-> <<>>,
     policy_state |-> None]

\* the outcome of a call that returned (action, None)
Returned(mode, queried, action) ==
    [kind |-> "return", mode |-> mode, queried |-> queried, action |-> action,
     policy_state |-> None]

\* draw_random_action, lines 177-178; u is what torch.rand returned, in [0, 1)
Gauss_draw_random_action(self, u) ==
    Returned("random", None,
             [i \in 1..Len(self.low) |->
                 ((u[i] * (self.high[i] - self.low[i])) \div 2) + self.low[i]])

\* lines 153-156 and 182-185: the state given to the approximator, or the error
Normalize(self, state) ==
    IF self.normalize_states
    THEN IF self.states_mean = None
         THEN [kind |-> "ValueError", state |-> state]
         ELSE IF self.states_std = None
              THEN [kind |-> "TypeError", state |-> state]
              ELSE [kind |-> "ok",
                    state |-> (state - self.states_mean[1]) \div self.states_std[1]]
    ELSE [kind |-> "ok", state |-> state]

\* lines 158-162 and 187-192: mu, with its continuous entries squashed if asked
SquashedMu(self, state) ==
    LET mu == Predict(self.weights, state)
        c == self.continuous_action_dims
    IN  IF self.squash_actions
        THEN AssignLast(mu, c, [i \in 1..Len(SliceLast(mu, c)) |->
                                   Tanh(SliceLast(mu, c)[i])])
        ELSE mu

\* lines 169-174 and 196-201: action is bound only when there are discrete entries
Compose(self, mode, queried, mu, action_raw) ==
    IF self.discrete_action_dims > 0
    THEN LET logits == SliceTo(mu, self.discrete_action_dims)
             action_disc == [i \in 1..Len(logits) |-> Sigmoid(logits[i])]
         IN  Returned(mode, queried,
                      Clip(action_disc \o action_raw, self.low, self.high))
    ELSE Raised("UnboundLocalError", mode, queried)

\* draw_deterministic_action, lines 180-201
Gauss_draw_deterministic_action(self, state) ==
    LET nz == Normalize(self, state)
    IN  IF nz.kind # "ok" THEN Raised(nz.kind, "deterministic", None)
        ELSE LET mu == SquashedMu(self, nz.state)
                 action_raw == SliceLast(mu, self.continuous_action_dims)
             IN  Compose(self, "deterministic", Some(nz.state), mu, action_raw)

\* the stochastic path of draw_action, lines 152-174; z is the normal draw
Gauss_draw_stochastic(self, state, z) ==
    LET nz == Normalize(self, state)
    IN  IF nz.kind # "ok" THEN Raised(nz.kind, "stochastic", None)
        ELSE LET mu == SquashedMu(self, nz.state)
                 loc == SliceLast(mu, self.continuous_action_dims)
                 action_raw == MVNSample(loc, self.chol_sigma, z)
             IN  Compose(self, "stochastic", Some(nz.state), mu, action_raw)

\* draw_action testing draw_deterministic before draw_random_act
Gauss_draw_action_det_first(self, state, z, u) ==
    IF self.draw_deterministic = TRUE
    THEN Gauss_draw_deterministic_action(self, state)
    ELSE IF self.draw_random_act = TRUE
    THEN Gauss_draw_random_action(self, u)
    ELSE Gauss_draw_stochastic(self, state, z)

\* draw_action, lines 145-174
Gauss_draw_action(self, state, z, u) ==
    IF self.draw_random_act = TRUE
    THEN Gauss_draw_random_action(self, u)
    ELSE IF self.draw_deterministic = TRUE
    THEN Gauss_draw_deterministic_action(self, state)
    ELSE Gauss_draw_stochastic(self, state, z)

\* __init__, lines 110-124, with the Cholesky factor of sigma given
Gauss_init(mu, chol, low, high, rnd, det, squash, d, c, normalize) ==
    [weights |-> mu, chol_sigma |-> chol, low |-> low, high |-> high,
     draw_random_act |-> rnd, draw_deterministic |-> det,
     squash_actions |-> squash, discrete_action_dims |-> d,
     continuous_action_dims |-> c, normalize_states |-> normalize,
     states_mean |-> None, states_std |-> None]

(***************************************************************************)
(* The Gaussian policy as a state machine: the agent may set the           *)
(* normalization fields, and draw_action is called with drawn inputs.      *)
(***************************************************************************)
GBounds == {<<-2, 2>>, <<0, 1>>}
GWeights(n) == {[i \in 1..n |-> 2], [i \in 1..n |-> IF i % 2 = 1 THEN -1 ELSE 3]}
GChols(c) == {[i \in 1..c |-> [j \in 1..c |-> IF j <= i THEN k ELSE 0]] : k \in {2}}
GStates == {-2, 0, 2}
GMeans == {0, 2}
GStds == {1, 2}
GNormals == {-1, 0, 1}
GRands == {0, 1}

InitGauss ==
    /\ call = Idle
    /\ ou = Idle
    /\ run = Idle
    /\ gcall = NoCall
    /\ \E d \in 0..MaxDisc, c \in 1..MaxCont :
          \E w \in GWeights(d + c), chol \in GChols(c),
             b \in [1..(d + c) -> GBounds],
             rnd \in BOOLEAN, det \in BOOLEAN, squash \in BOOLEAN,
             normalize \in BOOLEAN :
             gp = Gauss_init(w, chol, [i \in 1..(d + c) |-> b[i][1]],
                             [i \in 1..(d + c) |-> b[i][2]],
                             rnd, det, squash, d, c, normalize)

\* the agent class sets _states_mean (line 123)
SetStatesMean ==
    /\ gp.states_mean = None
    /\ \E m \in GMeans : gp' = [gp EXCEPT !.states_mean = Some(m)]
    /\ UNCHANGED <<call, ou, run, gcall>>

\* the agent class sets _states_std (line 124)
SetStatesStd ==
    /\ gp.states_std = None
    /\ \E sd \in GStds : gp' = [gp EXCEPT !.states_std = Some(sd)]
    /\ UNCHANGED <<call, ou, run, gcall>>

\* torch.rand is called in random mode only, distribution.sample in stochastic
\* mode only: elsewhere the draw is fixed, nothing reads it
GaussDrawAction ==
    /\ \E state \in GStates,
          z \in IF gp.draw_random_act \/ gp.draw_deterministic
                THEN {Zeros(gp.continuous_action_dims)}
                ELSE [1..gp.continuous_action_dims -> GNormals],
          u \in IF gp.draw_random_act
                THEN [1..Len(gp.low) -> GRands]
                ELSE {Zeros(Len(gp.low))} :
          gcall' = [op |-> "draw_action", self |-> gp, state |-> state,
                    out |-> Gauss_draw_action(gp, state, z, u)]
    /\ UNCHANGED <<call, ou, run, gp>>

NextGauss == SetStatesMean \/ SetStatesStd \/ GaussDrawAction

SpecGauss == InitGauss /\ [][NextGauss]_vars

\* every component of a lies within [low, high] of the policy the call ran on
InBounds(a) ==
    /\ Len(a) = Len(gcall.self.low)
    /\ \A i \in 1..Len(a) : gcall.self.low[i] <= a[i] /\ a[i] <= gcall.self.high[i]

\* normalization is off, or both of its fields are set
NormalizationReady ==
    gcall.self.normalize_states =>
        (gcall.self.states_mean # None /\ gcall.self.states_std # None)

\* the state the approximator is to be queried with
QueryState ==
    IF gcall.self.normalize_states
    THEN (gcall.state - gcall.self.states_mean[1]) \div gcall.self.states_std[1]
    ELSE gcall.state

\* C8: in stochastic and deterministic mode, for every count of discrete
\* components including zero, draw_action returns (action, None), the action
\* being the sigmoid of the discrete logits followed by the continuous part
\* (exactly the possibly squashed continuous mean in deterministic mode),
\* within [low, high].
C8_GaussReturns ==
    (/\ gcall.op = "draw_action"
     /\ gcall.self.draw_random_act = FALSE
     /\ NormalizationReady) =>
        LET self == gcall.self
            d == self.discrete_action_dims
            c == self.continuous_action_dims
            mu == Predict(self.weights, QueryState)
            a == gcall.out.action
        IN  /\ gcall.out.kind = "return"
            /\ gcall.out.policy_state = None
            /\ InBounds(a)
            /\ Len(a) = d + c
            /\ \A i \in 1..d :
                  a[i] = Clip(<<Sigmoid(mu[i])>>, <<self.low[i]>>, <<self.high[i]>>)[1]
            /\ self.draw_deterministic = TRUE =>
                  \A i \in (d + 1)..(d + c) :
                     LET m == IF self.squash_actions THEN Tanh(mu[i]) ELSE mu[i]
                     IN  a[i] = Clip(<<m>>, <<self.low[i]>>, <<self.high[i]>>)[1]

\* what the code does: the same holds of every policy that has at least one
\* discrete component
GaussReturnsWithDiscrete ==
    (gcall.op = "draw_action" /\ gcall.self.discrete_action_dims > 0) =>
        C8_GaussReturns

\* C9: with normalize_states set and the mean and std not both set, stochastic
\* and deterministic draw_action fail with the normalization-not-configured
\* error before the approximator is queried; with both set the approximator
\* is queried with (state - mean) / std.
C9_NormalizationError ==
    (/\ gcall.op = "draw_action"
     /\ gcall.self.draw_random_act = FALSE
     /\ gcall.self.normalize_states) =>
        IF gcall.self.states_mean = None \/ gcall.self.states_std = None
        THEN gcall.out.kind = "ValueError" /\ gcall.out.queried = None
        ELSE gcall.out.queried = Some(QueryState)

\* what the code does: the error is the configuration error when the mean is
\* unset, and a type error of the division when only the std is unset
NormalizationAsCoded ==
    (/\ gcall.op = "draw_action"
     /\ gcall.self.draw_random_act = FALSE
     /\ gcall.self.normalize_states) =>
        IF gcall.self.states_mean = None
        THEN gcall.out.kind = "ValueError" /\ gcall.out.queried = None
        ELSE IF gcall.self.states_std = None
        THEN gcall.out.kind = "TypeError" /\ gcall.out.queried = None
        ELSE gcall.out.queried = Some(QueryState)

\* C10: draw_random_act wins over draw_deterministic, and both over the
\* stochastic default; a random draw never queries the approximator and
\* returns an action within [low, high]; with only draw_deterministic set the
\* outcome is that of draw_deterministic_action; a returned policy state is
\* always None.
C10_Modes ==
    gcall.op = "draw_action" =>
        LET self == gcall.self
        IN  /\ gcall.out.mode =
                  IF self.draw_random_act THEN "random"
                  ELSE IF self.draw_deterministic THEN "deterministic"
                  ELSE "stochastic"
            /\ self.draw_random_act =>
                  /\ gcall.out.kind = "return"
                  /\ gcall.out.queried = None
                  /\ InBounds(gcall.out.action)
            /\ (~self.draw_random_act /\ self.draw_deterministic) =>
                  gcall.out = Gauss_draw_deterministic_action(self, gcall.state)
            /\ gcall.out.kind = "return" => gcall.out.policy_state = None

\* a random draw on a policy that also has draw_deterministic and an
\* unconfigured normalization set, returning an interior point
C10_Witness ==
    /\ gcall.op = "draw_action"
    /\ gcall.self.draw_random_act
    /\ gcall.self.draw_deterministic
    /\ gcall.self.normalize_states
    /\ gcall.self.states_mean = None
    /\ gcall.out.kind = "return"
    /\ \E i \in 1..Len(gcall.out.action) :
          gcall.self.low[i] < gcall.out.action[i]

====
